---- MODULE Spec2Model ----
(***************************************************************************)
(* Friday chat client: the stream decoder (services/api), the submission   *)
(* handler of the chat input (ChatInput.handleSubmit), the conversation    *)
(* store (pages/Index) and its persistence hook (usePersistentStorage).    *)
(*                                                                         *)
(* Texts are sequences of one-character strings, so that split, trim,      *)
(* startsWith, slice, includes and JSON.parse are computed on characters   *)
(* as the source computes them.                                            *)
(***************************************************************************)
EXTENDS Integers, Sequences, FiniteSets, TLC

VARIABLES
    \* ---- pages/Index + hooks/usePersistentStorage ----
    conversations,          \* useState<Conversation[]>            part_002:23
    currentConversationId,  \* useState<string | null>, 0 is null  part_001:41
    showWelcome,            \* useState(true)                      part_001:42
    isLoaded,               \* useState(false)                     part_002:24
    stored,                 \* localStorage[STORAGE_KEY], NoRecord when absent
    fault,                  \* how localStorage.setItem went in the last save effect
    \* ---- components/ChatInput ----
    isStreaming,            \* useState(false)                     part_004:34
    attachedFile,           \* useState<File | null>, 0 is null    part_004:33
    selectedTool,           \* useState('chat')                    part_004:28
    ops,                    \* the running handleSubmit invocations, by number
    clock,                  \* Date.now() at the next handler call
    retries,                \* the retry clicks so far (history)
    \* ---- services/api stream decoders, run alone ----
    which,                  \* "rag" (ragQueryStream) or "chat" (sendMessageStream)
    bytes,                  \* the whole body of the response
    rest,                   \* the part of the body not yet read
    reads,                  \* number of reader.read() calls that returned data
    dec,                    \* the decoder's local variables and the onChunk calls
    decPc,                  \* "reading", "done" (returned) or "failed" (threw)
    sentinel                \* the decoder's text and snapshots when it read [DONE] (history)

storeVars == <<conversations, currentConversationId, showWelcome, isLoaded, stored>>
inputVars == <<isStreaming, attachedFile, selectedTool, ops, clock, retries>>
decVars == <<which, bytes, rest, reads, dec, decPc, sentinel>>
vars == <<conversations, currentConversationId, showWelcome, isLoaded, stored, fault,
          isStreaming, attachedFile, selectedTool, ops, clock, retries,
          which, bytes, rest, reads, dec, decPc, sentinel>>

(***************************************************************************)
(* Text primitives (JavaScript String methods on character sequences).     *)
(***************************************************************************)
WhiteSpace == {" ", "\t", "\n", "\r"}

RECURSIVE TrimLeft(_)
TrimLeft(s) == IF s # <<>> /\ Head(s) \in WhiteSpace THEN TrimLeft(Tail(s)) ELSE s

RECURSIVE TrimRight(_)
TrimRight(s) ==
    IF s # <<>> /\ s[Len(s)] \in WhiteSpace
    THEN TrimRight(SubSeq(s, 1, Len(s) - 1)) ELSE s

\* String.prototype.trim
Trim(s) == TrimRight(TrimLeft(s))

\* String.prototype.startsWith
StartsWith(s, p) == Len(p) <= Len(s) /\ SubSeq(s, 1, Len(p)) = p

\* String.prototype.slice(n) and slice(0, n), n >= 0
SliceFrom(s, n) == SubSeq(s, n + 1, Len(s))
SliceTo(s, n) == SubSeq(s, 1, IF n < Len(s) THEN n ELSE Len(s))

\* String.prototype.includes
Includes(s, sub) ==
    \E i \in 1..(Len(s) - Len(sub) + 1) : SubSeq(s, i, i + Len(sub) - 1) = sub

\* first index j >= i with s[j] = c, 0 when there is none
IndexOfFrom(s, c, i) ==
    IF \E j \in i..Len(s) : s[j] = c
    THEN CHOOSE j \in i..Len(s) : s[j] = c /\ \A k \in i..(j - 1) : s[k] # c
    ELSE 0

\* chunk.split('\n')
RECURSIVE SplitLines(_)
SplitLines(s) ==
    LET i == IndexOfFrom(s, "\n", 1) IN
    IF i = 0 THEN <<s>>
    ELSE <<SubSeq(s, 1, i - 1)>> \o SplitLines(SubSeq(s, i + 1, Len(s)))

(***************************************************************************)
(* JSON.parse on the subset of JSON the modelled streams can contain:      *)
(* surrounding whitespace, a string literal, or a flat object whose values *)
(* are string literals or the empty array (no escapes, no whitespace       *)
(* between tokens).  Every other text is a SyntaxError (ok = FALSE).  A     *)
(* value is kept as what the decoders use of it: its truthiness and the    *)
(* text it becomes in a string concatenation.                              *)
(***************************************************************************)
\* a string is truthy unless empty; [] is truthy and concatenates as ''
StringValue(t) == [truthy |-> t # <<>>, str |-> t]
EmptyArray == [truthy |-> TRUE, str |-> <<>>]
Undefined == [truthy |-> FALSE, str |-> <<>>]

ParseFail == [ok |-> FALSE, isObject |-> FALSE, fields |-> <<>>]

\* index of the quote closing the string literal that opens at s[i], else 0
StringEnd(s, i) ==
    IF i <= Len(s) /\ s[i] = "\"" THEN IndexOfFrom(s, "\"", i + 1) ELSE 0

PutField(f, k, v) == [x \in (DOMAIN f) \cup {k} |-> IF x = k THEN v ELSE f[x]]

RECURSIVE ParseMembers(_, _, _)
ParseMembers(s, i, f) ==
    LET ke == StringEnd(s, i) IN
    IF ke = 0 \/ ke + 1 > Len(s) \/ s[ke + 1] # ":" THEN ParseFail
    ELSE LET isArray == ke + 3 <= Len(s) /\ s[ke + 2] = "[" /\ s[ke + 3] = "]"
             ve == IF isArray THEN ke + 3 ELSE StringEnd(s, ke + 2)
         IN
         IF ve = 0 \/ ve + 1 > Len(s) THEN ParseFail
         ELSE LET v == IF isArray THEN EmptyArray
                       ELSE StringValue(SubSeq(s, ke + 3, ve - 1))
                  g == PutField(f, SubSeq(s, i + 1, ke - 1), v)
              IN
              IF s[ve + 1] = "}"
              THEN IF ve + 1 = Len(s)
                   THEN [ok |-> TRUE, isObject |-> TRUE, fields |-> g]
                   ELSE ParseFail
              ELSE IF s[ve + 1] = "," THEN ParseMembers(s, ve + 2, g)
              ELSE ParseFail

JsonParse(raw) ==
    LET s == Trim(raw) IN
    IF s = <<>> THEN ParseFail
    ELSE IF s[1] = "\""
         THEN IF StringEnd(s, 1) = Len(s)
              THEN [ok |-> TRUE, isObject |-> FALSE, fields |-> <<>>]
              ELSE ParseFail
    ELSE IF s[1] = "{"
         THEN IF s = <<"{", "}">>
              THEN [ok |-> TRUE, isObject |-> TRUE, fields |-> <<>>]
              ELSE ParseMembers(s, 2, <<>>)
    ELSE ParseFail

KeyText == <<"t", "e", "x", "t">>
KeyContent == <<"c", "o", "n", "t", "e", "n", "t">>
KeyResponse == <<"r", "e", "s", "p", "o", "n", "s", "e">>
KeyAssistantId == <<"a", "s", "s", "i", "s", "t", "a", "n", "t", "_", "i", "d">>
KeyThreadId == <<"t", "h", "r", "e", "a", "d", "_", "i", "d">>

\* data.<key>
Field(data, key) ==
    IF data.isObject /\ key \in DOMAIN data.fields THEN data.fields[key] ELSE Undefined

(***************************************************************************)
(* services/api: ragQueryStream and sendMessageStream.                     *)
(***************************************************************************)
DataPrefix == <<"d", "a", "t", "a", ":", " ">>
DoneToken == <<"[", "D", "O", "N", "E", "]">>

\* let accumulatedText = ''; let receivedData = false;  plus the callbacks made
DecInit ==
    [accumulatedText |-> <<>>, receivedData |-> FALSE, emitted |-> <<>>,
     assistantId |-> <<>>, threadId |-> <<>>]

\* accumulatedText += t; receivedData = true; onChunk(accumulatedText)
Emit(d, t) ==
    [d EXCEPT !.accumulatedText = @ \o t,
              !.receivedData = TRUE,
              !.emitted = Append(@, d.accumulatedText \o t)]

\* if (data.text || data.content || data.response)
HasText(data) ==
    Field(data, KeyText).truthy \/ Field(data, KeyContent).truthy
        \/ Field(data, KeyResponse).truthy

\* const textContent = data.text || data.content || data.response,
\* as the text `accumulatedText += textContent` appends
TextContent(data) ==
    IF Field(data, KeyText).truthy THEN Field(data, KeyText).str
    ELSE IF Field(data, KeyContent).truthy THEN Field(data, KeyContent).str
    ELSE Field(data, KeyResponse).str

\* the metadata callbacks of one parsed frame
Metadata(d, data) ==
    [d EXCEPT !.assistantId =
                  IF Field(data, KeyAssistantId).truthy
                  THEN Field(data, KeyAssistantId).str ELSE @,
              !.threadId =
                  IF Field(data, KeyThreadId).truthy
                  THEN Field(data, KeyThreadId).str ELSE @]

\* one iteration of `for (const line of lines)` in ragQueryStream;
\* brk is TRUE when the iteration ends in `break`
RagLine(d, line) ==
    IF Trim(line) = <<>> THEN [d |-> d, brk |-> FALSE]
    ELSE IF StartsWith(line, DataPrefix)
    THEN LET jsonData == Trim(SliceFrom(line, 6))
             data == JsonParse(jsonData)
         IN  IF jsonData = DoneToken THEN [d |-> d, brk |-> TRUE]
             ELSE IF data.ok
             THEN [d |-> Metadata(IF HasText(data) THEN Emit(d, TextContent(data)) ELSE d,
                                  data),
                   brk |-> FALSE]
             ELSE \* catch (e): raw text
                  [d |-> IF jsonData # <<>> /\ jsonData # DoneToken
                         THEN Emit(d, jsonData) ELSE d,
                   brk |-> FALSE]
    ELSE LET data == JsonParse(line) IN
         IF data.ok
         THEN [d |-> IF HasText(data) THEN Emit(d, TextContent(data)) ELSE d,
               brk |-> FALSE]
         ELSE [d |-> Emit(d, line), brk |-> FALSE]

RECURSIVE RagLines(_, _)
RagLines(d, lines) ==
    IF lines = <<>> THEN d
    ELSE LET r == RagLine(d, Head(lines)) IN
         IF r.brk THEN r.d ELSE RagLines(r.d, Tail(lines))

\* the body of `while (true)` in ragQueryStream for one chunk that was read
RagChunk(d, chunk) == RagLines(d, SplitLines(chunk))

\* one iteration of `for (const line of lines)` in sendMessageStream
ChatLine(d, line) ==
    IF StartsWith(line, DataPrefix)
    THEN LET data == JsonParse(SliceFrom(line, 6)) IN
         IF data.ok /\ Field(data, KeyText).truthy
         THEN Emit(d, Field(data, KeyText).str) ELSE d
    ELSE d

RECURSIVE ChatLines(_, _)
ChatLines(d, lines) ==
    IF lines = <<>> THEN d ELSE ChatLines(ChatLine(d, Head(lines)), Tail(lines))

\* the body of `while (true)` in sendMessageStream for one chunk that was read
ChatChunk(d, chunk) == ChatLines(d, SplitLines(chunk))

(***************************************************************************)
(* pages/Index: messages, conversations and handleMessageSent.             *)
(***************************************************************************)
FridayThinking ==
    <<"F", "r", "i", "d", "a", "y", " ", "i", "s", " ", "t", "h", "i", "n", "k", "i", "n", "g",
      ".", ".", ".">>
UnicoThinking ==
    <<"U", "n", "i", "c", "o", " ", "A", "I", " ", "i", "s", " ", "t", "h", "i", "n", "k", "i",
      "n", "g", ".", ".", ".">>
ErrPhraseSorry ==
    <<"s", "o", "r", "r", "y", ",", " ", "i", " ", "e", "n", "c", "o", "u", "n", "t", "e", "r",
      "e", "d", " ", "a", "n", " ", "e", "r", "r", "o", "r">>
ErrPhraseFailedTo ==
    <<"f", "a", "i", "l", "e", "d", " ", "t", "o">>
ErrPhraseOccurred ==
    <<"e", "r", "r", "o", "r", " ", "o", "c", "c", "u", "r", "r", "e", "d">>
Ellipsis == <<".", ".", ".">>

UpperCase == <<"A", "B", "C", "D", "E", "F", "G", "H", "I", "J", "K", "L", "M",
               "N", "O", "P", "Q", "R", "S", "T", "U", "V", "W", "X", "Y", "Z">>
LowerCase == <<"a", "b", "c", "d", "e", "f", "g", "h", "i", "j", "k", "l", "m",
               "n", "o", "p", "q", "r", "s", "t", "u", "v", "w", "x", "y", "z">>

\* the lower-case letter of every upper-case letter
LowerOf == [c \in {UpperCase[i] : i \in 1..26} |->
               LowerCase[CHOOSE i \in 1..26 : UpperCase[i] = c]]

LowerChar(c) == IF c \in DOMAIN LowerOf THEN LowerOf[c] ELSE c

\* String.prototype.toLowerCase
ToLowerCase(s) == [i \in 1..Len(s) |-> LowerChar(s[i])]

\* const isErrorResponse = aiResponse.toLowerCase().includes(...) || ...
IsErrorResponse(aiResponse) ==
    LET lower == ToLowerCase(aiResponse) IN
    \/ Includes(lower, ErrPhraseSorry)
    \/ Includes(lower, ErrPhraseFailedTo)
    \/ Includes(lower, ErrPhraseOccurred)

\* the two messages built by the append branch; a field left out of the object
\* literal reads as FALSE (flags) or "undefined" (errorType)
NewMessages(userMessage, aiResponse, now) ==
    <<[role |-> "user", content |-> userMessage, isNew |-> TRUE, isThinking |-> FALSE,
       isError |-> FALSE, errorType |-> "undefined", timestamp |-> now,
       id |-> [prefix |-> "user", now |-> now]],
      [role |-> "assistant", content |-> aiResponse, isNew |-> FALSE,
       isThinking |-> (aiResponse = UnicoThinking),
       isError |-> FALSE, errorType |-> "undefined", timestamp |-> now + 1,
       id |-> [prefix |-> "assistant", now |-> now]]>>

\* title: userMessage.slice(0, 20) + (userMessage.length > 20 ? '...' : '')
TitleOf(userMessage) ==
    SliceTo(userMessage, 20) \o (IF Len(userMessage) > 20 THEN Ellipsis ELSE <<>>)

\* AppendBranch with `messages: newMessages` in place of
\* `messages: [...conv.messages, ...newMessages]`
AppendBranchReplacing(convs, cur, userMessage, aiResponse, now) ==
    IF cur # 0
    THEN [convs |->
            [i \in 1..Len(convs) |->
                IF convs[i].id = cur
                THEN [convs[i] EXCEPT
                        !.messages = NewMessages(userMessage, aiResponse, now)]
                ELSE convs[i]],
          cur |-> cur]
    ELSE [convs |->
            <<[id |-> now, title |-> TitleOf(userMessage),
               messages |-> NewMessages(userMessage, aiResponse, now),
               document |-> 0]>> \o convs,
          cur |-> now]

\* handleMessageSent(userMessage, aiResponse, false) run with the closure's
\* currentConversationId = cur on the conversation list convs at time now
AppendBranch(convs, cur, userMessage, aiResponse, now) ==
    IF cur # 0
    THEN [convs |->
            [i \in 1..Len(convs) |->
                IF convs[i].id = cur
                THEN [convs[i] EXCEPT
                        !.messages = @ \o NewMessages(userMessage, aiResponse, now)]
                ELSE convs[i]],
          cur |-> cur]
    ELSE [convs |->
            <<[id |-> now, title |-> TitleOf(userMessage),
               messages |-> NewMessages(userMessage, aiResponse, now),
               document |-> 0]>> \o convs,
          cur |-> now]

\* isLastAssistantMessage without the test on the messages that follow
IsAssistantMessage(messages, index) ==
    messages[index].role = "assistant"

\* const isLastAssistantMessage = msg.role === 'assistant' && (index === last ||
\*     !conv.messages.slice(index + 1).some(m => m.role === 'assistant'))
IsLastAssistantMessage(messages, index) ==
    /\ messages[index].role = "assistant"
    /\ \/ index = Len(messages)
       \/ ~\E j \in (index + 1)..Len(messages) : messages[j].role = "assistant"

\* UpdatedMessage without `isThinking: false`
UpdatedMessageKeepingThinking(msg, aiResponse) ==
    LET isErrorResponse == IsErrorResponse(aiResponse) IN
    [msg EXCEPT !.content = aiResponse,
                !.isNew = FALSE,
                !.isError = isErrorResponse,
                !.errorType = IF isErrorResponse THEN "server" ELSE "undefined"]

\* the object returned for the last assistant message
UpdatedMessage(msg, aiResponse) ==
    LET isErrorResponse == IsErrorResponse(aiResponse) IN
    [msg EXCEPT !.content = aiResponse,
                !.isThinking = FALSE,
                !.isNew = FALSE,
                !.isError = isErrorResponse,
                !.errorType = IF isErrorResponse THEN "server" ELSE "undefined"]

\* const isTargetConversation = conv.id === currentConversationId ||
\*     (currentConversationId === null && prevConvs.length === 1)
IsTargetConversation(prevConvs, conv, cur) ==
    conv.id = cur \/ (cur = 0 /\ Len(prevConvs) = 1)

\* handleMessageSent(userMessage, aiResponse, true) run with the closure's
\* currentConversationId = cur on the conversation list prevConvs; selected is the
\* id passed to setCurrentConversationId, 0 when it is not called
UpdateBranch(prevConvs, cur, aiResponse) ==
    [convs |->
        [i \in 1..Len(prevConvs) |->
            IF IsTargetConversation(prevConvs, prevConvs[i], cur)
            THEN [prevConvs[i] EXCEPT
                    !.messages =
                        [k \in 1..Len(@) |->
                            IF IsLastAssistantMessage(@, k)
                            THEN UpdatedMessage(@[k], aiResponse)
                            ELSE @[k]]]
            ELSE prevConvs[i]],
     selected |->
        IF cur = 0 /\ Len(prevConvs) = 1 THEN prevConvs[1].id ELSE 0]

(***************************************************************************)
(* hooks/usePersistentStorage: the stored record and the two effects.      *)
(***************************************************************************)
MAX_CONVERSATIONS == 50

\* localStorage.getItem(STORAGE_KEY) === null
NoRecord == [exists |-> FALSE, valid |-> TRUE, list |-> <<>>]

\* JSON.stringify of one message: the Date becomes its ISO text
StringifyMessage(m) == [m EXCEPT !.timestamp = [iso |-> m.timestamp]]

\* new Date(msg.timestamp) on the parsed ISO text
ReviveMessage(m) == [m EXCEPT !.timestamp = m.timestamp.iso]

\* JSON.stringify of a document field: null (or a missing field) is written as
\* null, a File object, which has no enumerable property, as {}
StringifyDocument(document) == IF document = 0 THEN "null" ELSE "{}"

\* what JSON.parse makes of a written document field: null, or an empty object,
\* which is truthy and is no File
EmptyObject == 0 - 1
ParseDocument(text) == IF text = "null" THEN 0 ELSE EmptyObject

\* Array.prototype.slice(0, n)
Slice(list, n) == SubSeq(list, 1, IF Len(list) < n THEN Len(list) ELSE n)

\* ConversationsToSave with slice(-MAX_CONVERSATIONS): the last entries kept
ConversationsToSaveOldest(convs) ==
    LET first == IF Len(convs) > MAX_CONVERSATIONS
                 THEN Len(convs) - MAX_CONVERSATIONS + 1 ELSE 1
        kept == SubSeq(convs, first, Len(convs))
    IN [i \in 1..Len(kept) |->
           [kept[i] EXCEPT
               !.document = "null",
               !.messages = [k \in 1..Len(@) |-> StringifyMessage(@[k])]]]

\* ConversationsToSave with the cap of the reduced write
ConversationsToSaveHalf(convs) ==
    [i \in 1..Len(Slice(convs, MAX_CONVERSATIONS \div 2)) |->
        [convs[i] EXCEPT
            !.document = "null",
            !.messages = [k \in 1..Len(@) |-> StringifyMessage(@[k])]]]

\* conversations.slice(0, MAX_CONVERSATIONS).map(conv => ({...conv, document: null}))
\* written with JSON.stringify
ConversationsToSave(convs) ==
    [i \in 1..(IF Len(convs) < MAX_CONVERSATIONS THEN Len(convs) ELSE MAX_CONVERSATIONS) |->
        [convs[i] EXCEPT
            !.document = "null",
            !.messages = [k \in 1..Len(@) |-> StringifyMessage(@[k])]]]

\* conversations.slice(0, MAX_CONVERSATIONS / 2) written with JSON.stringify
ReducedConversations(convs) ==
    [i \in 1..Len(Slice(convs, MAX_CONVERSATIONS \div 2)) |->
        [convs[i] EXCEPT
            !.document = StringifyDocument(@),
            !.messages = [k \in 1..Len(@) |-> StringifyMessage(@[k])]]]

\* the save effect: runs after every render in which conversations or isLoaded
\* changed; writes nothing before the initial load
SaveEffect(convs, loaded, old) ==
    IF loaded THEN [exists |-> TRUE, valid |-> TRUE, list |-> ConversationsToSave(convs)] ELSE old

\* the save effect without the reduced write in its catch block
SaveEffectNoReducedWrite(convs, loaded, old, outcome) ==
    IF ~loaded \/ outcome \in {"first", "both"} THEN old
    ELSE SaveEffect(convs, loaded, old)

\* the save effect when localStorage.setItem may throw: outcome is "none" (the
\* write succeeds), "first" (the write throws, the reduced write succeeds) or
\* "both" (both throw and the record stays what it was)
SaveEffectWith(convs, loaded, old, outcome) ==
    IF ~loaded \/ outcome = "both" THEN old
    ELSE IF outcome = "first" THEN [exists |-> TRUE, valid |-> TRUE, list |-> ReducedConversations(convs)]
    ELSE SaveEffect(convs, loaded, old)

\* the load effect's JSON.parse and parsed.map(...): timestamps back to Date objects
ConversationsWithDates(record) ==
    [i \in 1..Len(record.list) |->
        [record.list[i] EXCEPT
            !.document = ParseDocument(@),
            !.messages = [k \in 1..Len(@) |-> ReviveMessage(@[k])]]]

(***************************************************************************)
(* The decoders run alone on a response body made of whole frames, read in *)
(* chunks cut at arbitrary character positions.                            *)
(***************************************************************************)
MaxFrames == 2      \* frames in a response body
MaxReads == 2       \* reader.read() calls that return data

FrameText ==
    <<"d", "a", "t", "a", ":", " ", "{", "\"", "t", "e", "x", "t", "\"", ":", "\"", "a", "\"",
      "}">>
FrameDone ==
    <<"d", "a", "t", "a", ":", " ", "[", "D", "O", "N", "E", "]">>
FrameBare ==
    <<"{", "\"", "c", "o", "n", "t", "e", "n", "t", "\"", ":", "\"", "b", "\"", "}">>
FrameEmptyText ==
    <<"d", "a", "t", "a", ":", " ", "{", "\"", "t", "e", "x", "t", "\"", ":", "\"", "\"",
      "}">>
FrameArrayText ==
    <<"d", "a", "t", "a", ":", " ", "{", "\"", "t", "e", "x", "t", "\"", ":", "[", "]", "}">>
FrameBlank == <<>>

Frames == {FrameText, FrameDone, FrameBare, FrameEmptyText, FrameArrayText, FrameBlank}

\* the bodies of n frames, each frame followed by a newline
RECURSIVE Bodies(_)
Bodies(n) ==
    IF n = 0 THEN {<<>>}
    ELSE {b \o f \o <<"\n">> : b \in Bodies(n - 1), f \in Frames}

AllBodies == UNION {Bodies(n) : n \in 0..MaxFrames}

\* the state of the page and of the chat input before anything happened
StoreIdle ==
    /\ conversations = <<>>
    /\ currentConversationId = 0
    /\ showWelcome = TRUE
    /\ isLoaded = FALSE
    /\ stored = NoRecord
    /\ fault = "none"
    /\ isStreaming = FALSE
    /\ attachedFile = 0
    /\ selectedTool = "chat"
    /\ ops = <<>>
    /\ clock = 1
    /\ retries = <<>>

\* no [DONE] line was read
NoSentinel == [seen |-> FALSE, text |-> <<>>, snapshots |-> 0]

\* ragQueryStream reaches a [DONE] line of this chunk (the iteration that breaks)
ReadsDone(chunk) ==
    \E k \in 1..Len(SplitLines(chunk)) : RagLine(DecInit, SplitLines(chunk)[k]).brk

\* no decoder runs alone
DecoderIdle ==
    /\ which = "rag"
    /\ bytes = <<>>
    /\ rest = <<>>
    /\ reads = 0
    /\ dec = DecInit
    /\ decPc = "done"
    /\ sentinel = NoSentinel

DecoderInit ==
    /\ which \in {"rag", "chat"}
    /\ bytes \in AllBodies
    /\ rest = bytes
    /\ reads = 0
    /\ dec = DecInit
    /\ decPc = "reading"
    /\ sentinel = NoSentinel
    /\ StoreIdle

\* the decoder's loop body for one chunk
DecodeChunk(w, d, chunk) == IF w = "rag" THEN RagChunk(d, chunk) ELSE ChatChunk(d, chunk)

\* const { done, value } = await reader.read() with done = false:
\* the next n characters of the body arrive as one chunk
DecRead ==
    /\ decPc = "reading"
    /\ reads < MaxReads
    /\ \E n \in 1..Len(rest) :
        /\ (reads = MaxReads - 1) => (n = Len(rest))
        /\ dec' = DecodeChunk(which, dec, SubSeq(rest, 1, n))
        /\ rest' = SubSeq(rest, n + 1, Len(rest))
        /\ sentinel' =
              IF which = "rag" /\ ~sentinel.seen /\ ReadsDone(SubSeq(rest, 1, n))
              THEN [seen |-> TRUE, text |-> dec'.accumulatedText,
                    snapshots |-> Len(dec'.emitted)]
              ELSE sentinel
    /\ reads' = reads + 1
    /\ UNCHANGED <<which, bytes, decPc>>
    /\ UNCHANGED <<storeVars, fault, inputVars>>

\* reader.read() returns done = true: `break`, then the receivedData guard of
\* ragQueryStream (sendMessageStream has none) and the return
DecEnd ==
    /\ decPc = "reading"
    /\ rest = <<>>
    /\ decPc' = IF which = "rag" /\ ~dec.receivedData THEN "failed" ELSE "done"
    /\ UNCHANGED <<which, bytes, rest, reads, dec, sentinel>>
    /\ UNCHANGED <<storeVars, fault, inputVars>>

\* fetch or reader.read() rejects, or !response.ok: the error is re-thrown
DecThrow ==
    /\ decPc = "reading"
    /\ decPc' = "failed"
    /\ UNCHANGED <<which, bytes, rest, reads, dec, sentinel>>
    /\ UNCHANGED <<storeVars, fault, inputVars>>

DecoderNext == DecRead \/ DecEnd \/ DecThrow

SpecDecoder == DecoderInit /\ [][DecoderNext]_vars

\* the previous snapshot of the i-th onChunk call (the empty text before the first)
PrevSnapshot(i) == IF i = 1 THEN <<>> ELSE dec.emitted[i - 1]

\* C9: every snapshot passed to onChunk is the previous snapshot followed by at
\* least one more character, and the last one is the text accumulated so far
\* (snapshots are handed over in the order the chunks were read).
C9_SnapshotsStrictlyGrow ==
    /\ \A i \in 1..Len(dec.emitted) :
        /\ Len(dec.emitted[i]) > Len(PrevSnapshot(i))
        /\ SliceTo(dec.emitted[i], Len(PrevSnapshot(i))) = PrevSnapshot(i)
    /\ dec.emitted # <<>> => dec.emitted[Len(dec.emitted)] = dec.accumulatedText

\* C10: the text returned by a decoder depends on the body alone: it is the
\* text the decoder returns when the whole body arrives as one chunk.
C10_ChunkingIndependent ==
    decPc = "done" => dec.accumulatedText = DecodeChunk(which, DecInit, bytes).accumulatedText

\* C11: once ragQueryStream has read a `data: [DONE]` line, its accumulated text
\* and the number of snapshots it has emitted stay what they were at that line,
\* whatever lines follow in the same chunk or in later chunks.
C11_DoneStopsConsuming ==
    sentinel.seen =>
        /\ dec.accumulatedText = sentinel.text
        /\ Len(dec.emitted) = sentinel.snapshots

(***************************************************************************)
(* components/ChatInput: formatSearchResults and handleSubmit.             *)
(***************************************************************************)
ErrHead ==
    <<"S", "o", "r", "r", "y", ",", " ", "I", " ", "e", "n", "c", "o", "u", "n", "t", "e", "r",
      "e", "d", " ", "a", "n", " ", "e", "r", "r", "o", "r", " ", "w", "h", "i", "l", "e", " ",
      "p", "r", "o", "c", "e", "s", "s", "i", "n", "g", " ", "y", "o", "u", "r", " ">>
ErrTail ==
    <<".", " ", "P", "l", "e", "a", "s", "e", " ", "t", "r", "y", " ", "a", "g", "a", "i", "n",
      ".">>
ToolNameRag == <<"R", "A", "G", " ", "q", "u", "e", "r", "y">>
ToolNameSearch == <<"w", "e", "b", " ", "s", "e", "a", "r", "c", "h">>
ToolNameMarkdown ==
    <<"m", "a", "r", "k", "d", "o", "w", "n", " ", "c", "o", "n", "v", "e", "r", "s", "i", "o",
      "n">>
ToolNameMessage == <<"m", "e", "s", "s", "a", "g", "e">>
MarkdownPrompt ==
    <<"C", "o", "n", "v", "e", "r", "t", " ", "t", "h", "e", " ", "f", "o", "l", "l", "o", "w",
      "i", "n", "g", " ", "t", "e", "x", "t", " ", "t", "o", " ", "w", "e", "l", "l", "-", "f",
      "o", "r", "m", "a", "t", "t", "e", "d", " ", "m", "a", "r", "k", "d", "o", "w", "n", ":",
      " ">>

Digits == <<"0", "1", "2", "3", "4", "5", "6", "7", "8", "9">>

\* a non-negative number inside a template literal
RECURSIVE NumberText(_)
NumberText(n) ==
    IF n < 10 THEN <<Digits[n + 1]>>
    ELSE NumberText(n \div 10) \o <<Digits[(n % 10) + 1]>>

\* one entry of data.items.forEach: the fixed markup is one token per template
\* piece, the interpolated values are characters
RECURSIVE SearchItems(_, _)
SearchItems(items, index) ==
    IF index > Len(items) THEN <<>>
    ELSE <<"<div search-result-item>", "<h4>">> \o NumberText(index) \o <<".", " ">>
         \o (IF items[index].title # <<>> THEN items[index].title
             ELSE <<"U", "n", "t", "i", "t", "l", "e", "d">>)
         \o <<"</h4>", "<a>">> \o items[index].link \o <<"</a>">>
         \o (IF items[index].snippet # <<>>
             THEN <<"<div snippet>">> \o items[index].snippet \o <<"</div>">>
             ELSE <<>>)
         \o <<"</div>">>
         \o SearchItems(items, index + 1)

\* formatSearchResults(data) for a data object (data is not null)
FormatSearchResults(data) ==
    (IF data.overview # <<>> THEN data.overview \o <<"\n", "\n">> ELSE <<>>)
    \o <<"<div sources-container>", "<button sources-button>">>
    \o NumberText(IF data.total # 0 THEN data.total ELSE Len(data.items))
    \o <<"</button>", "</div>", "\n", "\n">>
    \o <<"<div sources-content>">>
    \o (IF data.warning # <<>>
        THEN <<"<div search-warning>">> \o data.warning \o <<"</div>", "\n", "\n">>
        ELSE <<>>)
    \o (IF Len(data.items) > 0
        THEN SearchItems(data.items, 1)
        ELSE <<"<div>", "N", "o", " ", "s", "o", "u", "r", "c", "e", "s", " ",
               "f", "o", "u", "n", "d", ".", "</div>", "\n">>)
    \o <<"</div>">>

\* getCurrentConversation()?.document || null
CurrentDocument ==
    IF \E i \in 1..Len(conversations) : conversations[i].id = currentConversationId
    THEN conversations[CHOOSE i \in 1..Len(conversations) :
                           conversations[i].id = currentConversationId].document
    ELSE 0

\* const documentToUse = attachedFile || conversationDocument
DocumentToUse(op) == IF op.attachedFile # 0 THEN op.attachedFile ELSE op.conversationDocument

\* KindOf with the selected tool tested before the document
KindOfToolFirst(op) ==
    IF op.selectedTool = "deepSearch" THEN "deepSearch"
    ELSE IF op.selectedTool = "markdown" THEN "markdown"
    ELSE IF DocumentToUse(op) # 0 THEN "rag"
    ELSE "chat"

\* the branch of handleSubmit an invocation takes
KindOf(op) ==
    IF DocumentToUse(op) # 0 THEN "rag"
    ELSE IF op.selectedTool = "deepSearch" THEN "deepSearch"
    ELSE IF op.selectedTool = "markdown" THEN "markdown"
    ELSE "chat"

\* the text sent to the remote operation
RequestText(op) ==
    IF KindOf(op) = "markdown" THEN MarkdownPrompt \o op.userMessage ELSE op.userMessage

\* the remote operation an invocation calls, with its arguments
Dispatch(op) ==
    [operation |-> CASE KindOf(op) = "rag" -> "ragQueryStream"
                     [] KindOf(op) = "deepSearch" -> "performDeepSearch"
                     [] OTHER -> "sendMessage",
     text |-> RequestText(op),
     file |-> IF KindOf(op) = "rag" THEN DocumentToUse(op) ELSE 0]

\* const toolName = ... in the catch block
ToolName(op) ==
    IF DocumentToUse(op) # 0 THEN ToolNameRag
    ELSE IF op.selectedTool = "deepSearch" THEN ToolNameSearch
    ELSE IF op.selectedTool = "markdown" THEN ToolNameMarkdown
    ELSE ToolNameMessage

\* const errorMessage = `Sorry, I encountered an error while processing your ...`
ErrorMessage(op) == ErrHead \o ToolName(op) \o ErrTail

\* ids of the messages an update made with the closure value cur replaces
UpdatedIds(prevConvs, cur) ==
    UNION {{prevConvs[i].messages[k].id :
                k \in {j \in 1..Len(prevConvs[i].messages) :
                          IsLastAssistantMessage(prevConvs[i].messages, j)}} :
           i \in {j \in 1..Len(prevConvs) :
                     IsTargetConversation(prevConvs, prevConvs[j], cur)}}

(***************************************************************************)
(* The page as a state machine.  An entry of ops is one invocation of      *)
(* handleSubmit: the values its closure captured at the submit event, its  *)
(* position, and the decoder state of its stream.  The fields ownMsg,      *)
(* ownConv, wrote, outcome and final record history for the properties     *)
(* below and are read by no action.                                        *)
(***************************************************************************)
MaxSubmits == 2         \* submissions through the chat input
MaxStored == 51     \* conversations in the store at the start
MaxNewChats == 2    \* chats made from the sidebar
MaxRetries == 1         \* clicks on a retry button
MaxStreamReads == 2     \* chunks of one document-QA stream

\* Date.now() when the session starts, later than the id of every conversation
\* an earlier session left
ClockStart == MaxStored + 1

InputShort == <<"h", "i">>
ReplyText == <<"o", "k">>
ReplyFailedTo == <<"I", " ", "f", "a", "i", "l", "e", "d", " ", "t", "o">>

\* what the user can type
Inputs == {InputShort}

\* files the user can attach
Files == {1}

\* response.data of POST /chat: with and without the response field
ChatReplies == {[response |-> ReplyText], [response |-> ReplyFailedTo], [response |-> <<>>]}

\* response.data of POST /search: null, or an object
SearchReplies ==
    {[isNull |-> TRUE, overview |-> <<>>, warning |-> <<>>, total |-> 0, items |-> <<>>],
     [isNull |-> FALSE, overview |-> ReplyText, warning |-> <<>>, total |-> 0,
      items |-> <<>>]}

\* response.data of POST /search with and without overview, warning, total
\* and items
WarningText == <<"o", "l", "d">>
SearchItem == [title |-> <<"t">>, link |-> <<"u">>, snippet |-> <<>>]
SearchPayloads ==
    {[isNull |-> TRUE, overview |-> <<>>, warning |-> <<>>, total |-> 0, items |-> <<>>]}
    \cup {[isNull |-> FALSE, overview |-> o, warning |-> w, total |-> t, items |-> it] :
              o \in {<<>>, ReplyText}, w \in {<<>>, WarningText}, t \in {0, 2},
              it \in {<<>>, <<SearchItem>>}}

\* chunks of the body of POST /rag/chat/stream: one whole frame each
StreamChunks == {FrameText \o <<"\n">>, FrameDone \o <<"\n">>}

\* a record an earlier session left in localStorage
SavedConversation ==
    [id |-> 1, title |-> InputShort, document |-> "null",
     messages |->
        <<StringifyMessage([NewMessages(InputShort, ReplyText, 1)[1] EXCEPT !.isNew = FALSE]),
          StringifyMessage(NewMessages(InputShort, ReplyText, 1)[2])>>]

\* a record whose text JSON.parse rejects, or whose value is not an array of
\* conversations with messages: the load effect's try block throws on it
MalformedRecord == [exists |-> TRUE, valid |-> FALSE, list |-> <<>>]

StoredRecords ==
    {NoRecord, [exists |-> TRUE, valid |-> TRUE, list |-> <<SavedConversation>>],
     MalformedRecord}

Init ==
    /\ conversations = <<>>
    /\ currentConversationId = 0
    /\ showWelcome = TRUE
    /\ isLoaded = FALSE
    /\ stored \in StoredRecords
    /\ fault = "none"
    /\ isStreaming = FALSE
    /\ attachedFile = 0
    /\ selectedTool = "chat"
    /\ ops = <<>>
    /\ clock = ClockStart
    /\ retries = <<>>
    /\ DecoderIdle

\* the load effect without localStorage.getItem: the store stays empty
LoadEffectWithoutRead ==
    /\ ~isLoaded
    /\ conversations' = <<>>
    /\ isLoaded' = TRUE
    /\ stored' = SaveEffect(conversations', TRUE, stored)
    /\ fault' = "none"
    /\ UNCHANGED <<currentConversationId, showWelcome, inputVars, decVars>>

\* the load effect, then the save effect of the render that follows it
LoadEffect ==
    /\ ~isLoaded
    /\ conversations' =
          (IF stored.exists /\ stored.valid THEN ConversationsWithDates(stored) ELSE <<>>)
    /\ isLoaded' = TRUE
    /\ stored' = SaveEffect(conversations', TRUE, stored)
    /\ fault' = "none"
    /\ UNCHANGED <<currentConversationId, showWelcome, inputVars, decVars>>

\* the store part of one onMessageSent(userMessage, aiResponse, true) made by
\* invocation i
UpdateFrom(i, aiResponse) ==
    LET u == UpdateBranch(conversations, ops[i].currentConversationId, aiResponse) IN
    /\ conversations' = u.convs
    /\ currentConversationId' =
          (IF u.selected # 0 THEN u.selected ELSE currentConversationId)
    /\ stored' = SaveEffect(u.convs, isLoaded, stored)
    /\ UNCHANGED <<showWelcome, isLoaded>>

Wrote(i) == ops[i].wrote \cup UpdatedIds(conversations, ops[i].currentConversationId)

\* handleSubmit up to its first await: the guard, onMessageSent(userMessage,
\* "Friday is thinking...", false), and the choice of the remote operation
Submit(userMessage) ==
    /\ isLoaded
    /\ Len(ops) < MaxSubmits
    /\ Trim(userMessage) # <<>>
    /\ ~isStreaming
    /\ LET a == AppendBranch(conversations, currentConversationId, userMessage,
                             FridayThinking, clock)
           captured == [userMessage |-> userMessage,
                        attachedFile |-> attachedFile,
                        conversationDocument |-> CurrentDocument,
                        selectedTool |-> selectedTool]
           op == [pc |-> "await",
                  userMessage |-> userMessage,
                  currentConversationId |-> currentConversationId,
                  attachedFile |-> attachedFile,
                  conversationDocument |-> CurrentDocument,
                  selectedTool |-> selectedTool,
                  request |-> Dispatch(captured),
                  d |-> DecInit,
                  nreads |-> 0,
                  ownMsg |-> [prefix |-> "assistant", now |-> clock],
                  ownConv |-> a.cur,
                  wrote |-> {},
                  outcome |-> "none",
                  final |-> <<>>]
       IN /\ conversations' = a.convs
          /\ currentConversationId' = a.cur
          /\ showWelcome' = FALSE
          /\ stored' = SaveEffect(a.convs, isLoaded, stored)
          /\ isStreaming' = (KindOf(op) = "rag")
          /\ ops' = Append(ops, op)
    /\ clock' = clock + 1
    /\ UNCHANGED <<isLoaded, attachedFile, selectedTool, retries, decVars, fault>>

\* the catch block of handleSubmit for invocation i
Catch(i, why) ==
    /\ isStreaming' = FALSE
    /\ UpdateFrom(i, ErrorMessage(ops[i]))
    /\ ops' = [ops EXCEPT ![i].pc = "done", ![i].outcome = why, ![i].wrote = Wrote(i),
                          ![i].final = ErrorMessage(ops[i])]
    /\ UNCHANGED <<attachedFile, selectedTool, clock, retries, decVars, fault>>

\* the tail of the try block for a non-streaming invocation i
Succeed(i, response) ==
    /\ UpdateFrom(i, response)
    /\ ops' = [ops EXCEPT ![i].pc = "done", ![i].outcome = "ok", ![i].wrote = Wrote(i),
                          ![i].final = response]
    /\ UNCHANGED <<isStreaming, attachedFile, selectedTool, clock, retries, decVars, fault>>

Awaiting(i, kinds) == i \in 1..Len(ops) /\ ops[i].pc = "await" /\ KindOf(ops[i]) \in kinds

\* await sendMessage(...) resolves (plain chat and markdown conversion)
ChatResolve(i) ==
    /\ Awaiting(i, {"chat", "markdown"})
    /\ \E data \in ChatReplies :
        IF data.response = <<>> THEN Catch(i, "invalid") ELSE Succeed(i, data.response)

\* await performDeepSearch(userMessage) resolves
SearchResolveFrom(i, replies) ==
    /\ Awaiting(i, {"deepSearch"})
    /\ \E searchData \in replies :
        IF searchData.isNull THEN Catch(i, "invalid") ELSE Succeed(i, FormatSearchResults(searchData))

SearchResolve(i) == SearchResolveFrom(i, SearchReplies)

\* the awaited request rejects: transport error, timeout, failure status,
\* fetch or reader.read() rejecting
Reject(i) ==
    /\ Awaiting(i, {"chat", "markdown", "deepSearch", "rag"})
    /\ Catch(i, "rejected")

\* the snapshots emitted after the first n, written to the store one by one
RECURSIVE ApplySnapshots(_, _, _)
ApplySnapshots(u, cur, snaps) ==
    IF snaps = <<>> THEN u
    ELSE LET v == UpdateBranch(u.convs, cur, Head(snaps)) IN
         ApplySnapshots([convs |-> v.convs,
                         selected |-> IF v.selected # 0 THEN v.selected ELSE u.selected],
                        cur, Tail(snaps))

\* ragQueryStream of invocation i reads one chunk; every snapshot it emits is
\* passed to onMessageSent(userMessage, accumulated, true)
StreamRead(i) ==
    /\ Awaiting(i, {"rag"})
    /\ ops[i].nreads < MaxStreamReads
    /\ \E chunk \in StreamChunks :
        LET d2 == RagChunk(ops[i].d, chunk)
            snaps == SubSeq(d2.emitted, Len(ops[i].d.emitted) + 1, Len(d2.emitted))
            u == ApplySnapshots([convs |-> conversations, selected |-> 0],
                                ops[i].currentConversationId, snaps)
        IN /\ conversations' = u.convs
           /\ currentConversationId' =
                 (IF u.selected # 0 THEN u.selected ELSE currentConversationId)
           /\ stored' = SaveEffect(u.convs, isLoaded, stored)
           /\ ops' = [ops EXCEPT ![i].d = d2,
                                 ![i].nreads = @ + 1,
                                 ![i].wrote = IF snaps # <<>> THEN Wrote(i) ELSE @]
    /\ UNCHANGED <<showWelcome, isLoaded, isStreaming, attachedFile, selectedTool,
                   clock, retries, decVars, fault>>

\* handleDocumentUploaded(file) run with the closure's currentConversationId = cur
DocumentUploaded(convs, cur, file) ==
    IF cur # 0
    THEN [k \in 1..Len(convs) |->
            IF convs[k].id = cur THEN [convs[k] EXCEPT !.document = file] ELSE convs[k]]
    ELSE convs

\* the stream of invocation i ends: the receivedData guard, then either the catch
\* block or onDocumentUploaded(attachedFile) and setIsStreaming(false)
StreamEnd(i) ==
    /\ Awaiting(i, {"rag"})
    /\ IF ~ops[i].d.receivedData
       THEN Catch(i, "empty")
       ELSE /\ conversations' =
                  (IF ops[i].attachedFile # 0
                   THEN DocumentUploaded(conversations, ops[i].currentConversationId,
                                         ops[i].attachedFile)
                   ELSE conversations)
            /\ stored' = SaveEffect(conversations', isLoaded, stored)
            /\ isStreaming' = FALSE
            /\ ops' = [ops EXCEPT ![i].pc = "done", ![i].outcome = "ok",
                                  ![i].final = ops[i].d.accumulatedText]
            /\ UNCHANGED <<currentConversationId, showWelcome, isLoaded, attachedFile,
                           selectedTool, clock, retries, decVars, fault>>

\* handleRetryMessage(messageId), reachable from the retry button that a message
\* bubble of the current conversation shows when msg.isError
RetryMessage(messageId) ==
    /\ isLoaded
    /\ Len(retries) < MaxRetries
    /\ ~showWelcome
    /\ \E ci \in 1..Len(conversations) :
        /\ conversations[ci].id = currentConversationId
        /\ \E mi \in 1..Len(conversations[ci].messages) :
            LET messages == conversations[ci].messages
                found == messages[mi].role = "assistant" /\ mi > 1
                             /\ messages[mi - 1].role = "user"
                a == AppendBranch(conversations, currentConversationId,
                                  messages[mi - 1].content, UnicoThinking, clock)
            IN /\ messages[mi].id = messageId
               /\ messages[mi].isError
               /\ conversations' = (IF found THEN a.convs ELSE conversations)
               /\ currentConversationId' = (IF found THEN a.cur ELSE currentConversationId)
               /\ showWelcome' = (IF found THEN FALSE ELSE showWelcome)
               /\ retries' = Append(retries,
                                    [messageId |-> messageId, conv |-> ci, index |-> mi,
                                     appended |-> found,
                                     newMsg |-> [prefix |-> "assistant", now |-> clock]])
    /\ stored' = SaveEffect(conversations', isLoaded, stored)
    /\ clock' = clock + 1
    /\ UNCHANGED <<isLoaded, isStreaming, attachedFile, selectedTool, ops, decVars, fault>>

\* handleSelectConversation(id) from the sidebar list
SelectConversation(id) ==
    /\ isLoaded
    /\ \E ci \in 1..Len(conversations) :
        /\ conversations[ci].id = id
        /\ showWelcome' = (Len(conversations[ci].messages) = 0)
    /\ currentConversationId' = id
    /\ UNCHANGED <<conversations, isLoaded, stored, inputVars, decVars, fault>>

\* ClearAll without setCurrentConversationId(null)
ClearAllKeepingCurrent ==
    /\ isLoaded
    /\ conversations' = <<>>
    /\ showWelcome' = TRUE
    /\ stored' = SaveEffect(<<>>, isLoaded, NoRecord)
    /\ UNCHANGED <<currentConversationId, isLoaded, inputVars, decVars, fault>>

\* Sidebar.handleClearAll: setConversations([]), then Index.handleClearAll with
\* clearStorage(); the save effect of the next render writes the empty list
ClearAll ==
    /\ isLoaded
    /\ conversations' = <<>>
    /\ currentConversationId' = 0
    /\ showWelcome' = TRUE
    /\ stored' = SaveEffect(<<>>, isLoaded, NoRecord)
    /\ UNCHANGED <<isLoaded, inputVars, decVars, fault>>

\* the timer of the isNew effect fires, one second after the last change
ClearIsNew ==
    /\ isLoaded
    /\ currentConversationId # 0
    /\ conversations' =
          [i \in 1..Len(conversations) |->
              IF conversations[i].id = currentConversationId
              THEN [conversations[i] EXCEPT
                      !.messages = [k \in 1..Len(@) |-> [@[k] EXCEPT !.isNew = FALSE]]]
              ELSE conversations[i]]
    /\ stored' = SaveEffect(conversations', isLoaded, stored)
    /\ UNCHANGED <<currentConversationId, showWelcome, isLoaded, inputVars, decVars, fault>>

\* handleAttachmentUpload with a file that passes validateFileType
AttachFile(file) ==
    /\ isLoaded
    /\ Len(ops) < MaxSubmits
    /\ attachedFile # file
    /\ attachedFile' = file
    /\ UNCHANGED <<storeVars, isStreaming, selectedTool, ops, clock, retries, decVars, fault>>

\* the remove button of the attachment chip: setAttachedFile(null)
RemoveAttachedFile ==
    /\ isLoaded
    /\ Len(ops) < MaxSubmits
    /\ attachedFile # 0
    /\ attachedFile' = 0
    /\ UNCHANGED <<storeVars, isStreaming, selectedTool, ops, clock, retries, decVars, fault>>

\* the tools menu: setSelectedTool(tool)
SelectTool(tool) ==
    /\ isLoaded
    /\ Len(ops) < MaxSubmits
    /\ selectedTool # tool
    /\ selectedTool' = tool
    /\ UNCHANGED <<storeVars, isStreaming, attachedFile, ops, clock, retries, decVars, fault>>

TitleChat == <<"C", "h", "a", "t", " ">>

\* Sidebar.createNewChat, handleSelectConversation(newChat.id) on the list of the
\* current render, and the save effect of the render that follows
CreateNewChat(outcome) ==
    /\ isLoaded
    /\ clock < ClockStart + MaxNewChats
    /\ LET newChat == [id |-> clock,
                       title |-> TitleChat \o NumberText(Len(conversations) + 1),
                       messages |-> <<>>,
                       document |-> 0]
       IN /\ conversations' = <<newChat>> \o conversations
          /\ currentConversationId' = newChat.id
          /\ showWelcome' =
                ~\E i \in 1..Len(conversations) :
                    conversations[i].id = newChat.id /\ Len(conversations[i].messages) > 0
    /\ stored' = SaveEffectWith(conversations', isLoaded, stored, outcome)
    /\ fault' = outcome
    /\ clock' = clock + 1
    /\ UNCHANGED <<isLoaded, isStreaming, attachedFile, selectedTool, ops, retries, decVars>>

\* the values Date.now() takes: 1 in the saved record, ClockStart onwards in this
\* session
ClockValues == {1} \cup (ClockStart..(ClockStart + MaxSubmits + MaxRetries + MaxNewChats))
AssistantIds == {[prefix |-> "assistant", now |-> t] : t \in ClockValues}

Next ==
    \/ LoadEffect
    \/ \E userMessage \in Inputs : Submit(userMessage)
    \/ \E i \in 1..MaxSubmits : ChatResolve(i)
    \/ \E i \in 1..MaxSubmits : SearchResolve(i)
    \/ \E i \in 1..MaxSubmits : Reject(i)
    \/ \E i \in 1..MaxSubmits : StreamRead(i)
    \/ \E i \in 1..MaxSubmits : StreamEnd(i)
    \/ \E id \in AssistantIds : RetryMessage(id)
    \/ \E id \in ClockValues : SelectConversation(id)
    \/ ClearAll
    \/ ClearIsNew
    \/ \E file \in Files : AttachFile(file)
    \/ RemoveAttachedFile
    \/ \E tool \in {"chat", "deepSearch", "markdown"} : SelectTool(tool)

Spec == Init /\ [][Next]_vars

(***************************************************************************)
(* The page with its sidebar in plain-chat mode: new chats, submissions of *)
(* short and long inputs, selection, clear-all and the isNew timer.        *)
(***************************************************************************)
Input20 ==
    <<"a", "b", "c", "d", "e", "f", "g", "h", "i", "j", "k", "l", "m", "n", "o", "p", "q", "r",
      "s", "t">>
Input21 == Input20 \o <<"u">>

\* what the user can type: up to, exactly and over the 20 characters of a title
TitleInputs == {InputShort, Input20, Input21}

SidebarNext ==
    \/ LoadEffect
    \/ \E userMessage \in TitleInputs : Submit(userMessage)
    \/ \E i \in 1..MaxSubmits : ChatResolve(i)
    \/ CreateNewChat("none")
    \/ \E id \in ClockValues : SelectConversation(id)
    \/ ClearAll
    \/ ClearIsNew

SpecSidebar == Init /\ [][SidebarNext]_vars

(***************************************************************************)
(* Properties of the page.                                                 *)
(***************************************************************************)
MessagesOf(convs) ==
    UNION {{convs[i].messages[k] : k \in 1..Len(convs[i].messages)} : i \in 1..Len(convs)}

HasMsg(id) == \E m \in MessagesOf(conversations) : m.id = id
Msg(id) == CHOOSE m \in MessagesOf(conversations) : m.id = id

\* an assistant message that left the pending state: complete or failed
Terminal(m) ==
    /\ m.role = "assistant"
    /\ ~m.isThinking
    /\ m.content # FridayThinking
    /\ m.content # UnicoThinking

ThinkingCount(conv) ==
    Cardinality({k \in 1..Len(conv.messages) : conv.messages[k].isThinking})

OpsOf(convId) == {i \in 1..Len(ops) : ops[i].ownConv = convId}

\* C1: once an assistant message holds terminal content, no step changes its
\* content, isError or errorType.
C1_TerminalIsFinal ==
    [][\A m \in MessagesOf(conversations) :
          Terminal(m) =>
              \A n \in MessagesOf(conversations') :
                  n.id = m.id =>
                      /\ n.content = m.content
                      /\ n.isError = m.isError
                      /\ n.errorType = m.errorType]_vars

\* C2: the step that accepts a submission leaves the target conversation ending
\* with the user message followed by an assistant message with isThinking = TRUE
\* (the remote operation of the new invocation has not returned anything yet).
C2_PlaceholderIsThinking ==
    [][Len(ops') = Len(ops) + 1 =>
          LET op == ops'[Len(ops')]
              messages ==
                  conversations'[CHOOSE i \in 1..Len(conversations') :
                                     conversations'[i].id = op.ownConv].messages
              n == Len(messages)
          IN /\ n >= 2
             /\ messages[n - 1].role = "user"
             /\ messages[n - 1].content = op.userMessage
             /\ messages[n].role = "assistant"
             /\ messages[n].id = op.ownMsg
             /\ messages[n].isThinking]_vars

\* C3: in a conversation that only submissions appended to, exactly one message
\* has isThinking = TRUE while exactly one dispatch is awaiting its terminal
\* update, and none has once every dispatch of the conversation is over.
C3_OneThinkingWhilePending ==
    \A c \in 1..Len(conversations) :
        LET own == OpsOf(conversations[c].id)
            awaiting == {i \in own : ops[i].pc = "await"}
        IN (own # {} /\ \A k \in 1..Len(retries) : ~retries[k].appended) =>
              /\ Cardinality(awaiting) = 1 => ThinkingCount(conversations[c]) = 1
              /\ awaiting = {} => ThinkingCount(conversations[c]) = 0

\* C4: of two submissions to the same conversation, each writes its result or
\* error to the assistant message its own submission appended and to no other,
\* and no message is written by both.
C4_WritesOwnMessageOnly ==
    \A i, j \in 1..Len(ops) :
        (i # j /\ ops[i].ownConv = ops[j].ownConv) =>
            /\ ops[i].wrote \subseteq {ops[i].ownMsg}
            /\ ops[i].wrote \cap ops[j].wrote = {}

\* C5: when the handler of a submission is over, the assistant message that
\* submission appended holds the operation's result or its error text (stated
\* for a conversation to which nothing else was submitted or retried).
C5_PlaceholderGetsResult ==
    \A i \in 1..Len(ops) :
        (/\ ops[i].pc = "done"
         /\ HasMsg(ops[i].ownMsg)
         /\ OpsOf(ops[i].ownConv) = {i}
         /\ retries = <<>>) =>
            /\ Msg(ops[i].ownMsg).content = ops[i].final
            /\ ops[i].outcome # "ok" => Msg(ops[i].ownMsg).isError

\* C6: a retry step that appends a new pending message also starts an invocation
\* of the dispatch path (a new remote operation).
C6_RetryStartsOperation ==
    [][(Len(retries') = Len(retries) + 1 /\ retries'[Len(retries')].appended) =>
          Len(ops') = Len(ops) + 1]_vars

\* C7: a retry of a failed assistant message keeps every message of the
\* conversation as it was and where it was, the retried one included, and appends
\* after them a copy of the paired user message and a new assistant message with
\* isThinking = TRUE; the other conversations are unchanged.
C7_RetryAppendsPending ==
    [][Len(retries') = Len(retries) + 1 =>
          LET r == retries'[Len(retries')]
              old == conversations[r.conv].messages
              new == conversations'[r.conv].messages
          IN /\ old[r.index].id = r.messageId
             /\ old[r.index].isError
             /\ Len(conversations') = Len(conversations)
             /\ \A c \in 1..Len(conversations) :
                   c # r.conv => conversations'[c] = conversations[c]
             /\ Len(new) = Len(old) + 2
             /\ SubSeq(new, 1, Len(old)) = old
             /\ new[Len(old) + 1].role = "user"
             /\ new[Len(old) + 1].content = old[r.index - 1].content
             /\ new[Len(new)].role = "assistant"
             /\ new[Len(new)].id = r.newMsg
             /\ new[Len(new)].isThinking
             /\ ~new[Len(new)].isError]_vars

\* C7 witness: a failed message was retried: it is still in place with its error,
\* and the pending message the retry appended follows it.
C7_Witness ==
    /\ Len(retries) = 1
    /\ HasMsg(retries[1].messageId) /\ Msg(retries[1].messageId).isError
    /\ HasMsg(retries[1].newMsg) /\ Msg(retries[1].newMsg).isThinking
    /\ Len(conversations[retries[1].conv].messages) = retries[1].index + 2

\* C8: a document-QA stream that ends without a text delta leaves the assistant
\* message of its submission failed.
C8_EmptyStreamFails ==
    \A i \in 1..Len(ops) :
        (ops[i].outcome = "empty" /\ HasMsg(ops[i].ownMsg)) =>
            /\ Msg(ops[i].ownMsg).isError
            /\ ~Msg(ops[i].ownMsg).isThinking

ErrorTypes == {"network", "timeout", "server", "client", "unknown"}

\* the invocations that are alone in their conversation, with no retry made
Alone(i) == OpsOf(ops[i].ownConv) = {i} /\ retries = <<>>

\* C12: while the stream of a document-QA submission is being read and at least
\* one snapshot was emitted, the assistant message of that submission holds the
\* latest snapshot and still has isThinking = TRUE.
C12_StreamingKeepsThinking ==
    \A i \in 1..Len(ops) :
        (/\ KindOf(ops[i]) = "rag"
         /\ ops[i].pc = "await"
         /\ ops[i].d.emitted # <<>>
         /\ HasMsg(ops[i].ownMsg)
         /\ Alone(i)) =>
            /\ Msg(ops[i].ownMsg).content = ops[i].d.emitted[Len(ops[i].d.emitted)]
            /\ Msg(ops[i].ownMsg).isThinking

\* C13: when the remote operation, the decoding or the normalization of a
\* submission failed, the handler has ended and the assistant message of that
\* submission holds the error text with isError = TRUE, an errorType of the
\* taxonomy and isThinking = FALSE.
C13_FailureMarksOwnMessage ==
    \A i \in 1..Len(ops) :
        (/\ ops[i].outcome \in {"invalid", "rejected", "empty"}
         /\ HasMsg(ops[i].ownMsg)
         /\ Alone(i)) =>
            /\ ops[i].pc = "done"
            /\ Msg(ops[i].ownMsg).content = ErrorMessage(ops[i])
            /\ Msg(ops[i].ownMsg).isError
            /\ Msg(ops[i].ownMsg).errorType \in ErrorTypes
            /\ ~Msg(ops[i].ownMsg).isThinking

\* C14: a message has isError = TRUE only if it holds the error text of a failed
\* operation, and the assistant message of a submission whose operation
\* succeeded has isError = FALSE.
C14_ErrorOnlyOnFailure ==
    /\ \A m \in MessagesOf(conversations) :
          m.isError =>
              \E i \in 1..Len(ops) :
                  /\ ops[i].outcome \in {"invalid", "rejected", "empty"}
                  /\ m.content = ops[i].final
    /\ \A i \in 1..Len(ops) :
          (ops[i].outcome = "ok" /\ HasMsg(ops[i].ownMsg) /\ Alone(i)) =>
              ~Msg(ops[i].ownMsg).isError

\* C15: no message of the store has isThinking and isError both TRUE.
C15_ThinkingExcludesError ==
    \A m \in MessagesOf(conversations) : ~(m.isThinking /\ m.isError)

\* C15 witness: the store holds a failed message and a pending one
C15_Witness ==
    /\ \E m \in MessagesOf(conversations) : m.isError /\ ~m.isThinking
    /\ \E m \in MessagesOf(conversations) : m.isThinking /\ ~m.isError
    /\ \E i \in 1..Len(ops) : ops[i].pc = "done" /\ ops[i].outcome # "ok"

\* C16: the step that accepts a submission calls one remote operation, chosen from
\* the attached file, the bound document and the selected mode at that moment:
\* document-QA streaming if a file is attached or a document is bound, else web
\* search if that mode is selected, else plain chat with the markdown instruction
\* before the input if markdown mode is selected, else plain chat with the input.
C16_ModePrecedence ==
    [][Len(ops') = Len(ops) + 1 =>
          LET op == ops'[Len(ops')]
              document == IF attachedFile # 0 THEN attachedFile ELSE CurrentDocument
          IN op.request =
                IF document # 0
                THEN [operation |-> "ragQueryStream", text |-> op.userMessage,
                      file |-> document]
                ELSE IF selectedTool = "deepSearch"
                THEN [operation |-> "performDeepSearch", text |-> op.userMessage,
                      file |-> 0]
                ELSE IF selectedTool = "markdown"
                THEN [operation |-> "sendMessage",
                      text |-> MarkdownPrompt \o op.userMessage, file |-> 0]
                ELSE [operation |-> "sendMessage", text |-> op.userMessage,
                      file |-> 0]]_vars

\* C16 witness: a submission made with no file attached and another mode selected
\* went to document-QA because its conversation has a bound document
C16_Witness ==
    \E i \in 1..Len(ops) :
        /\ ops[i].attachedFile = 0
        /\ ops[i].conversationDocument # 0
        /\ ops[i].selectedTool # "chat"
        /\ ops[i].request.operation = "ragQueryStream"

\* C17: the step in which a document-QA submission made with an attached file
\* completes successfully leaves the conversation of that submission with that
\* file as its document.
C17_AttachedFileBecomesBound ==
    [][\A i \in 1..Len(ops) :
          (/\ ops[i].pc = "await"
           /\ ops'[i].pc = "done"
           /\ ops'[i].outcome = "ok"
           /\ ops[i].request.operation = "ragQueryStream"
           /\ ops[i].attachedFile # 0) =>
              \A c \in 1..Len(conversations') :
                  conversations'[c].id = ops[i].ownConv =>
                      conversations'[c].document = ops[i].attachedFile]_vars

(***************************************************************************)
(* The conversation list and its persistence, run alone: a store that      *)
(* holds up to MaxStored conversations, new chats made from the sidebar,   *)
(* writes that may fail, and page reloads.                                 *)
(***************************************************************************)
\* the ways localStorage.setItem can go in one save effect
WriteOutcomes == {"none", "first", "both"}

\* a store of n conversations, newest first, each with one exchange; bound says
\* which of them have a bound document: "none", "newest" or "all"
StoreList(n, bound) ==
    [i \in 1..n |->
        [id |-> n + 1 - i,
         title |-> TitleOf(InputShort),
         messages |->
            <<[NewMessages(InputShort, ReplyText, n + 1 - i)[1] EXCEPT !.isNew = FALSE],
              UpdatedMessage(NewMessages(InputShort, FridayThinking, n + 1 - i)[2],
                             ReplyText)>>,
         document |-> IF bound = "all" \/ (bound = "newest" /\ i = 1)
                      THEN 1 ELSE 0]]

StoreLists == {StoreList(n, bound) : n \in 0..MaxStored, bound \in {"none", "newest", "all"}}

StorageInit ==
    /\ conversations \in StoreLists
    /\ currentConversationId = 0
    /\ showWelcome = TRUE
    /\ isLoaded = TRUE
    /\ stored = SaveEffect(conversations, TRUE, NoRecord)
    /\ fault = "none"
    /\ isStreaming = FALSE
    /\ attachedFile = 0
    /\ selectedTool = "chat"
    /\ ops = <<>>
    /\ clock = ClockStart
    /\ retries = <<>>
    /\ DecoderIdle

\* the page is reloaded: every useState starts over, localStorage stays
PageReload ==
    /\ isLoaded
    /\ conversations' = <<>>
    /\ currentConversationId' = 0
    /\ showWelcome' = TRUE
    /\ isLoaded' = FALSE
    /\ isStreaming' = FALSE
    /\ attachedFile' = 0
    /\ selectedTool' = "chat"
    /\ ops' = <<>>
    /\ retries' = <<>>
    /\ UNCHANGED <<stored, fault, clock, decVars>>

StorageNext ==
    \/ \E outcome \in WriteOutcomes : CreateNewChat(outcome)
    \/ PageReload
    \/ LoadEffect

SpecStorage == StorageInit /\ [][StorageNext]_vars

Smaller(a, b) == IF a < b THEN a ELSE b

\* the record's entries are the first entries of the list, in the list's order
IsPrefixOf(record, list) ==
    /\ Len(record) <= Len(list)
    /\ \A i \in 1..Len(record) : record[i].id = list[i].id

\* every conversation the record leaves out was created before every one it keeps
LeavesOutOldest(record, list) ==
    \A i \in 1..Len(record) : \A j \in (Len(record) + 1)..Len(list) :
        list[j].id < list[i].id

\* C18 as claimed: every write that changes the record leaves it with at most 50
\* conversations, the 50 most recently created of the store (all of them when
\* the store holds no more than 50), in store order.
C18_KeepsFiftyNewest ==
    [][(stored' # stored /\ stored'.exists) =>
          /\ Len(stored'.list) <= 50
          /\ Len(stored'.list) = Smaller(Len(conversations'), 50)
          /\ IsPrefixOf(stored'.list, conversations')
          /\ LeavesOutOldest(stored'.list, conversations')]_vars

\* C18 amended: every write that changes the record leaves it with at most 50
\* conversations, which are the most recently created ones of the store in store
\* order: the 50 newest after a write that succeeds at once, the 25 newest after
\* the reduced write that follows a failed one.
C18_WritePrunesOldest ==
    [][(stored' # stored /\ stored'.exists) =>
          /\ Len(stored'.list) <= 50
          /\ Len(stored'.list) =
                Smaller(Len(conversations'), IF fault' = "first" THEN 25 ELSE 50)
          /\ IsPrefixOf(stored'.list, conversations')
          /\ LeavesOutOldest(stored'.list, conversations')]_vars

\* C18 witness: the store holds more than 50 conversations, the newest a chat just
\* made, and the record written for it holds the 50 newest
C18_Witness ==
    /\ Len(conversations) > 50
    /\ conversations[1].messages = <<>>
    /\ fault = "none"
    /\ stored.exists
    /\ Len(stored.list) = 50
    /\ stored.list[1].id = conversations[1].id

\* C19: every conversation of the record in durable storage has its document
\* written as null.
C19_DocumentsNulled ==
    stored.exists => \A i \in 1..Len(stored.list) : stored.list[i].document = "null"

\* the loaded list has the conversations of the list, in order, with the same
\* titles, message roles and contents, and no document
SameConversations(loaded, list) ==
    /\ Len(loaded) = Len(list)
    /\ \A i \in 1..Len(list) :
          /\ loaded[i].id = list[i].id
          /\ loaded[i].title = list[i].title
          /\ loaded[i].document = 0
          /\ Len(loaded[i].messages) = Len(list[i].messages)
          /\ \A k \in 1..Len(list[i].messages) :
                /\ loaded[i].messages[k].role = list[i].messages[k].role
                /\ loaded[i].messages[k].content = list[i].messages[k].content

SpecLoad == Init /\ [][SidebarNext]_vars /\ WF_vars(LoadEffect)

\* the page with the web-search tool, over search payloads of every shape
SearchNext ==
    \/ LoadEffect
    \/ SelectTool("deepSearch")
    \/ \E userMessage \in Inputs : Submit(userMessage)
    \/ \E i \in 1..MaxSubmits : SearchResolveFrom(i, SearchPayloads)
    \/ \E i \in 1..MaxSubmits : Reject(i)
    \/ ClearIsNew

SpecSearch == Init /\ [][SearchNext]_vars

\* C21: a step after which a conversation of the store is gone leaves the store
\* with no conversation, no conversation current, and a persisted record (as the
\* save effect of that change wrote it) with no conversation.
C21_OnlyClearAllRemoves ==
    [][(\E c \in 1..Len(conversations) :
           \A d \in 1..Len(conversations') : conversations'[d].id # conversations[c].id) =>
          /\ conversations' = <<>>
          /\ currentConversationId' = 0
          /\ stored'.exists => stored'.list = <<>>]_vars

\* C21 witness: the conversation a submission made was cleared away
C21_Witness ==
    /\ \E i \in 1..Len(ops) : ops[i].ownConv # 0
    /\ conversations = <<>>
    /\ currentConversationId = 0
    /\ stored.exists /\ stored.list = <<>>

\* C23: when the request of a plain-chat or markdown submission has resolved,
\* the assistant message of that submission is complete (isThinking and isError
\* FALSE) with the response field as content if the reply had one, and is a
\* failed message (isError TRUE, isThinking FALSE) if it had none.
C23_ReplyCompletesOrFails ==
    \A i \in 1..Len(ops) :
        (/\ KindOf(ops[i]) \in {"chat", "markdown"}
         /\ ops[i].pc = "done"
         /\ HasMsg(ops[i].ownMsg)
         /\ Alone(i)) =>
            /\ ops[i].outcome = "ok" =>
                  /\ Msg(ops[i].ownMsg).content = ops[i].final
                  /\ ~Msg(ops[i].ownMsg).isThinking
                  /\ ~Msg(ops[i].ownMsg).isError
            /\ ops[i].outcome = "invalid" =>
                  /\ Msg(ops[i].ownMsg).isError
                  /\ ~Msg(ops[i].ownMsg).isThinking

\* C24: when the normalized output of a web search holds the warning banner,
\* the banner is its first section, before the summary, the source-list control
\* and the entries.
C24_WarningBannerFirst ==
    \A i \in 1..Len(ops) :
        (/\ KindOf(ops[i]) = "deepSearch"
         /\ ops[i].outcome = "ok"
         /\ \E k \in 1..Len(ops[i].final) : ops[i].final[k] = "<div search-warning>") =>
            ops[i].final[1] = "<div search-warning>"

\* no request is awaited and the pass of the isNew effect changes nothing more
Quiescent ==
    /\ isLoaded
    /\ \A i \in 1..Len(ops) : ops[i].pc = "done"
    /\ \A c \in 1..Len(conversations) :
          conversations[c].id = currentConversationId =>
              \A k \in 1..Len(conversations[c].messages) : ~conversations[c].messages[k].isNew

\* C25: once no request is awaited and the housekeeping pass has nothing left to
\* change, so that without a further user or network event the store stays as
\* it is, no message of any conversation has isNew = TRUE.
C25_IsNewCleared ==
    Quiescent => \A m \in MessagesOf(conversations) : ~m.isNew

\* the messages of old are, in order and with their role, id and timestamp, the
\* first messages of new
KeepsMessages(old, new) ==
    /\ Len(new.messages) >= Len(old.messages)
    /\ \A k \in 1..Len(old.messages) :
          /\ new.messages[k].id = old.messages[k].id
          /\ new.messages[k].role = old.messages[k].role
          /\ new.messages[k].timestamp = old.messages[k].timestamp

\* C26: a step that is not a clear-all keeps every conversation, in order, with
\* its messages in place (role, id and timestamp included), new messages coming
\* after them; and a step in which a submission's update is applied changes at
\* most one conversation, adds no message, and changes no message but the most
\* recent assistant message of that conversation.
C26_StoreFrame ==
    [][/\ (conversations' # <<>> \/ conversations = <<>>) =>
             LET o == Len(conversations') - Len(conversations) IN
             /\ o >= 0
             /\ \A c \in 1..Len(conversations) :
                   /\ conversations'[c + o].id = conversations[c].id
                   /\ KeepsMessages(conversations[c], conversations'[c + o])
       /\ (ops' # ops /\ Len(ops') = Len(ops)) =>
             /\ Len(conversations') = Len(conversations)
             /\ Cardinality({c \in 1..Len(conversations) :
                                conversations'[c] # conversations[c]}) <= 1
             /\ \A c \in 1..Len(conversations) :
                   /\ Len(conversations'[c].messages) = Len(conversations[c].messages)
                   /\ \A k \in 1..Len(conversations[c].messages) :
                         conversations'[c].messages[k] # conversations[c].messages[k] =>
                             /\ conversations[c].messages[k].role = "assistant"
                             /\ \A j \in (k + 1)..Len(conversations[c].messages) :
                                   conversations[c].messages[j].role # "assistant"]_vars

\* C26 witness: an update was applied in a conversation that holds an earlier
\* exchange, with another conversation in the store
C26_Witness ==
    \E i \in 1..Len(ops) : \E c \in 1..Len(conversations) :
        /\ ops[i].pc = "done"
        /\ ops[i].wrote # {}
        /\ conversations[c].id = ops[i].ownConv
        /\ Len(conversations[c].messages) >= 4
        /\ Msg(ops[i].ownMsg).content = ops[i].final
        /\ Len(conversations) >= 2

\* C27: after a store change whose write threw, the record holds the first 25
\* conversations of the store (all of them when there are fewer) if the second
\* write went through, and is what it was if the second write threw too; in
\* both cases the change itself is in the store, the page stays loaded and no
\* message has isError = TRUE.
C27_WriteFaultSwallowed ==
    [][(clock' # clock /\ fault' \in {"first", "both"}) =>
          /\ fault' = "first" =>
                /\ stored'.exists
                /\ Len(stored'.list) = Smaller(Len(conversations'), 25)
                /\ IsPrefixOf(stored'.list, conversations')
          /\ fault' = "both" => stored' = stored
          /\ Tail(conversations') = conversations
          /\ Head(conversations').id = clock
          /\ isLoaded'
          /\ \A m \in MessagesOf(conversations') : ~m.isError]_vars

\* C27 witness: a write threw and the reduced write stored 25 conversations, the
\* new chat first; then both writes for the next new chat threw
C27_Witness ==
    /\ fault = "both"
    /\ Len(conversations) >= 27
    /\ conversations[1].messages = <<>>
    /\ stored.exists
    /\ Len(stored.list) = 25
    /\ stored.list[1].id = conversations[2].id
    /\ conversations[2].id >= ClockStart

\* C28: while the initial load has not completed the record is not written, and
\* the step that completes the load leaves a valid record of an earlier session
\* with the conversations it had; and the load completes, whether the record is
\* absent, valid or malformed.
C28_NoWriteBeforeLoad ==
    /\ [][~isLoaded =>
             /\ ~isLoaded' => stored' = stored
             /\ (stored.exists /\ stored.valid) =>
                   /\ stored'.exists /\ stored'.valid
                   /\ Len(stored'.list) = Len(stored.list)
                   /\ \A k \in 1..Len(stored.list) :
                         /\ stored'.list[k].id = stored.list[k].id
                         /\ Len(stored'.list[k].messages) = Len(stored.list[k].messages)]_vars
    /\ <>isLoaded

\* C28 witness: the load completed on the record of an earlier session, which
\* still holds that session's conversation
C28_Witness ==
    /\ isLoaded
    /\ Len(conversations) = 1
    /\ conversations[1].id = SavedConversation.id
    /\ stored.exists /\ stored.valid
    /\ Len(stored.list) = 1
    /\ stored.list[1].id = SavedConversation.id

\* C29: a step in which the result or error of a submission is applied leaves
\* the messages of every conversation other than the one that submission
\* appended to as they were; when that conversation is gone the step changes
\* no message at all.
C29_LateCompletionOwnConversation ==
    [][\A i \in 1..Len(ops) :
          (Len(ops') = Len(ops) /\ ops'[i] # ops[i]) =>
              \A c \in 1..Len(conversations) :
                  conversations[c].id # ops[i].ownConv =>
                      /\ c <= Len(conversations')
                      /\ conversations'[c].messages = conversations[c].messages]_vars

\* C30: the streaming flag, on which handleSubmit returns at once, is TRUE
\* exactly while the stream of a document-QA submission is being awaited: no
\* submission is accepted during the stream, and once the stream has ended,
\* with a result or a failure, the flag is FALSE again.
C30_StreamingFlagFollowsStream ==
    isStreaming <=> \E i \in 1..Len(ops) : Awaiting(i, {"rag"})

\* the first message of a conversation with role "user"
FirstUserMessage(conv) ==
    conv.messages[CHOOSE k \in 1..Len(conv.messages) :
                      /\ conv.messages[k].role = "user"
                      /\ \A j \in 1..(k - 1) : conv.messages[j].role # "user"]

\* C22: after every step, every conversation that holds a user message has as
\* title the first 20 characters of its first user message, followed by '...'
\* exactly when that message is longer than 20 characters; and no step changes
\* the title of a conversation that stays in the store.
C22_TitleFromFirstMessage ==
    [][/\ \A c \in 1..Len(conversations') :
             (\E k \in 1..Len(conversations'[c].messages) :
                 conversations'[c].messages[k].role = "user") =>
                 LET first == FirstUserMessage(conversations'[c]).content IN
                 conversations'[c].title =
                     IF Len(first) > 20
                     THEN SubSeq(first, 1, 20) \o <<".", ".", ".">>
                     ELSE first
       /\ \A c \in 1..Len(conversations) : \A d \in 1..Len(conversations') :
             conversations'[d].id = conversations[c].id =>
                 conversations'[d].title = conversations[c].title]_vars

====
